---- MODULE Spec2Model ----
(***************************************************************************)
(* Satellite Telemetry Plotter (src/main.py).                              *)
(*                                                                         *)
(* A Python str is modelled as a sequence of atoms (TLA+ strings), so that *)
(* concatenation is \o and the order in which pieces are glued together is *)
(* observable.  A matplotlib figure is modelled as the record of the calls *)
(* made on it (axes created, y-limits set, lines plotted, annotations      *)
(* placed, title set, drawn).                                              *)
(*                                                                         *)
(* Floating point: margin = span * 0.05 is modelled exactly, as a rational *)
(* with denominator 20: every y-limit is kept multiplied by MarginDen.     *)
(***************************************************************************)
EXTENDS Integers, Sequences, FiniteSets, TLC

VARIABLES
    data,       \* the DataFrame: data[i + 1] is the column of index i
    running,    \* root.mainloop() is running
    entry,      \* text of entry_columns at the last submit, split at ','
    outcome,    \* how the last handler ended
    shown,      \* the messagebox.showerror call of the last handler, if any
    passed,     \* selected_columns of the plot_selected_columns call of the last handler, if any
    figures,    \* pyplot's figures, in creation order
    submits,    \* number of submit events handled
    args,       \* arguments of a direct call of one of the pure functions
    ret         \* what that call returned

vars == <<data, running, entry, outcome, shown, passed, figures, submits, args, ret>>

----------------------------------------------------------------------------
(* Bounds *)

NumRows == 2        \* rows of the dataset
MaxVal == 1         \* telemetry values range over 0..MaxVal
NumDataCols == 2    \* telemetry columns next to the time column
MaxInputLen == 4    \* comma-separated tokens typed into the entry
MaxSubmits == 2     \* submit events handled in one run

(* Program constants *)

MaxColumns == 3         \* at most 3 columns are plotted
MarginDen == 20         \* margin = span * 0.05 = span / 20
LevelSpacing == 7       \* offset_y = -7 * level / 7 * level
ThirdAxisOffset == 60   \* ('outward', 60)

----------------------------------------------------------------------------
(* Python helpers *)

Last(s) == s[Len(s)]

\* s[:-1]
ButLast(s) == SubSeq(s, 1, Len(s) - 1)

\* The position a Python index i denotes in a sequence of length n (0-based),
\* or -1 when s[i] raises IndexError.
PyIndex(n, i) ==
    IF i >= 0 /\ i < n THEN i
    ELSE IF i < 0 /\ n + i >= 0 THEN n + i
    ELSE -1

Range(s) == {s[i] : i \in 1..Len(s)}

SeqsUpTo(S, n) == UNION {[1..k -> S] : k \in 1..n}

----------------------------------------------------------------------------
(* Annotation_Max_Min *)

Annotation_Max_Min(peak_xy, min_xy) == [peak_xy |-> peak_xy, min_xy |-> min_xy]

\* colors = ['tab:blue', 'tab:green', 'tab:red']
Colors == <<"tab:blue", "tab:green", "tab:red">>

\* Mutant: the offset is 7 points whatever the level
annotate_fixed_offset(label, xy, color, last_position_above, level) ==
    [label |-> label,
     xy |-> xy,
     xytext |-> IF last_position_above THEN <<10, -LevelSpacing>> ELSE <<10, LevelSpacing>>,
     facecolor |-> color,
     connectionstyle |-> IF last_position_above THEN "arc3,rad=-0.2" ELSE "arc3,rad=0.2",
     returned |-> ~last_position_above]

\* One ax.annotate call and the value handed back to the caller.  offset_y is
\* negative (text below) after a placement above, positive otherwise.
annotate_axs_max_min_no_overlap(label, xy, color, last_position_above, level) ==
    [label |-> label,
     xy |-> xy,
     xytext |-> IF last_position_above
                THEN <<10, -LevelSpacing * level>>
                ELSE <<10, LevelSpacing * level>>,
     facecolor |-> color,
     connectionstyle |-> IF last_position_above THEN "arc3,rad=-0.2" ELSE "arc3,rad=0.2",
     returned |-> ~last_position_above]

\* The 'Peak' placement of series `level` followed by its 'Lowest' placement,
\* which is made with the value the 'Peak' placement returned (lines 44-45 and
\* 48-49).  col_names[level-1] of the source is col_names[level] here.
ThenLowest(peak, col_names, annotation_max_mins, colors, level) ==
    <<peak,
      annotate_axs_max_min_no_overlap(
          <<"Lowest", " ">> \o col_names[level],
          annotation_max_mins[level].min_xy,
          colors[level], peak.returned, level)>>

\* Mutant: the 'Lowest' label is placed before the 'Peak' label
LowestThenPeak(col_names, annotation_max_mins, colors, last_position_above, level) ==
    <<annotate_axs_max_min_no_overlap(
          <<"Lowest", " ">> \o col_names[level],
          annotation_max_mins[level].min_xy,
          colors[level], last_position_above, level),
      annotate_axs_max_min_no_overlap(
          <<"Peak", " ">> \o col_names[level],
          annotation_max_mins[level].peak_xy,
          colors[level], ~last_position_above, level)>>

PeakThenLowest(col_names, annotation_max_mins, colors, last_position_above, level) ==
    ThenLowest(
        annotate_axs_max_min_no_overlap(
            <<"Peak", " ">> \o col_names[level],
            annotation_max_mins[level].peak_xy,
            colors[level], last_position_above, level),
        col_names, annotation_max_mins, colors, level)

\* The placements made by one call, in call order.
RECURSIVE annotate_axs_max_min_levels(_, _, _, _, _)
annotate_axs_max_min_levels(col_names, annotation_max_mins, colors, last_position_above, level) ==
    IF level # 1
    THEN PeakThenLowest(col_names, annotation_max_mins, colors, last_position_above, level)
         \o annotate_axs_max_min_levels(col_names, annotation_max_mins, colors, TRUE, level - 1)
    ELSE PeakThenLowest(col_names, annotation_max_mins, colors, last_position_above, level)

----------------------------------------------------------------------------
(* Figure title *)

\* col_names is non-empty at every call the program makes; col_names[col_names_size-1]
\* of the source is col_names[col_names_size] here.
RECURSIVE get_fig_title_string(_, _, _)
get_fig_title_string(title_string, col_names, col_names_size) ==
    IF Len(col_names) # 1
    THEN get_fig_title_string(
             title_string \o <<" ">> \o col_names[col_names_size] \o <<",">>,
             ButLast(col_names), Len(col_names) - 1)
    ELSE title_string \o <<" ">> \o col_names[col_names_size]

TitlePrefix == <<"Satellite Telemetry:">>

----------------------------------------------------------------------------
(* The DataFrame *)

\* 'Satellite Date/Time UTC': strictly increasing timestamps, one per row.
TimeColumn == [r \in 1..NumRows |-> r]

\* Every table of NumDataCols telemetry columns next to the time column.
DataSets ==
    {<<TimeColumn>> \o cols : cols \in [1..NumDataCols -> [1..NumRows -> 0..MaxVal]]}

\* The table of the run of the application: column c holds (r * c) % (MaxVal + 1).
SampleData ==
    <<TimeColumn>> \o [c \in 1..NumDataCols |-> [r \in 1..NumRows |-> (r * c) % (MaxVal + 1)]]

\* len(data.columns)
ColumnCount(d) == Len(d)

\* data.columns[i], for a valid position i
ColumnName(i) == IF i = 0 THEN <<"Satellite Date/Time UTC">> ELSE <<"Telemetry", ToString(i)>>

\* data[data.columns[i]]
Column(d, i) == d[i + 1]

\* The values of column 0 are Timestamps, all others are numbers; an order
\* comparison between the two kinds raises TypeError.
Kind(i) == IF i = 0 THEN "Timestamp" ELSE "number"

\* Series.min() / Series.max()
SeriesMin(col) == CHOOSE m \in Range(col) : \A x \in Range(col) : m <= x
SeriesMax(col) == CHOOSE m \in Range(col) : \A x \in Range(col) : m >= x

\* The first row holding the value v
FirstIndex(col, v) ==
    CHOOSE i \in 1..Len(col) : col[i] = v /\ \A j \in 1..(i - 1) : col[j] # v

\* Series.idxmin() / Series.idxmax(): the first row holding the extremum
IdxMin(col) == FirstIndex(col, SeriesMin(col))
IdxMax(col) == FirstIndex(col, SeriesMax(col))

\* min(...) / max(...) over a generator: a left-to-right scan from element i on
\* that keeps the extremum m found so far and replaces it only by a strictly
\* smaller (larger) element
RECURSIVE MinScan(_, _, _)
MinScan(s, i, m) ==
    IF i > Len(s) THEN m
    ELSE MinScan(s, i + 1, IF s[i] < m THEN s[i] ELSE m)
PyMin(s) == MinScan(s, 2, s[1])

RECURSIVE MaxScan(_, _, _)
MaxScan(s, i, m) ==
    IF i > Len(s) THEN m
    ELSE MaxScan(s, i + 1, IF s[i] > m THEN s[i] ELSE m)
PyMax(s) == MaxScan(s, 2, s[1])

----------------------------------------------------------------------------
(* plot_selected_columns *)

\* The exception raised while min(...) of line 214 consumes its generator from
\* position i on, or "none": element i is evaluated (IndexError when
\* data.columns[col_idx] is out of range) and then compared with the minimum so
\* far (TypeError when a Timestamp meets a number).
RECURSIVE MinFault(_, _, _)
MinFault(d, selected_columns, i) ==
    IF i > Len(selected_columns) THEN "none"
    ELSE IF PyIndex(ColumnCount(d), selected_columns[i]) = -1 THEN "IndexError"
    ELSE IF i > 1 /\ Kind(PyIndex(ColumnCount(d), selected_columns[i]))
                     # Kind(PyIndex(ColumnCount(d), selected_columns[1]))
         THEN "TypeError"
    ELSE MinFault(d, selected_columns, i + 1)

\* plt.subplots(): a figure with its main axis, nothing set on it yet
NewFigure ==
    [window_title |-> "LTB_sat_realtime_telemetry_plot",
     axes |-> <<[ylim |-> <<>>, line |-> <<>>, ylabel |-> <<>>, color |-> "", outward |-> 0]>>,
     annotations |-> <<>>,
     suptitle |-> <<>>,
     drawn |-> FALSE]

\* Mutant: the minimum is taken over every telemetry column of the table
overall_min_all_columns(d, selected_columns) ==
    PyMin([k \in 1..(ColumnCount(d) - 1) |-> SeriesMin(Column(d, k))])

\* overall_min and overall_max of lines 214-215
overall_min(d, selected_columns) ==
    PyMin([k \in 1..Len(selected_columns) |->
              SeriesMin(Column(d, PyIndex(ColumnCount(d), selected_columns[k])))])

overall_max(d, selected_columns) ==
    PyMax([k \in 1..Len(selected_columns) |->
              SeriesMax(Column(d, PyIndex(ColumnCount(d), selected_columns[k])))])

\* margin = (overall_max - overall_min) * 0.05, multiplied by MarginDen
margin(omin, omax) == omax - omin

\* The (overall_min - margin, overall_max + margin) of set_ylim, both
\* multiplied by MarginDen
YLimOf(omin, omax) ==
    <<MarginDen * omin - margin(omin, omax), MarginDen * omax + margin(omin, omax)>>

YLim(d, selected_columns) ==
    YLimOf(overall_min(d, selected_columns), overall_max(d, selected_columns))

\* The figure of a call that ran to its end (lines 221-263): one axis per
\* column, each with the shared y-limits ylim, then the annotations and title.
CompletedFigure(col_names, annotation_max_mins, ylim) ==
    [window_title |-> "LTB_sat_realtime_telemetry_plot",
     axes |-> [k \in 1..Len(col_names) |->
                  [ylim |-> ylim,
                   line |-> col_names[k],
                   ylabel |-> col_names[k],
                   color |-> Colors[((k - 1) % Len(Colors)) + 1],
                   outward |-> IF k - 1 = 2 THEN ThirdAxisOffset ELSE 0]],
     annotations |-> annotate_axs_max_min_levels(
                         col_names, annotation_max_mins, Colors, TRUE, Len(col_names)),
     suptitle |-> get_fig_title_string(TitlePrefix, col_names, Len(col_names)),
     drawn |-> TRUE]

\* Annotation_Max_Min of one column: (peak_time, max) and (min_time, min)
ColumnExtrema(time, col) ==
    Annotation_Max_Min(<<time[IdxMax(col)], SeriesMax(col)>>,
                       <<time[IdxMin(col)], SeriesMin(col)>>)

\* What one call leaves behind: the exception that ended it ("none" when it
\* returned) and the figure it created.  Called with 0 to MaxColumns columns.
plot_selected_columns(d, selected_columns) ==
    LET n == Len(selected_columns)
        col(k) == PyIndex(ColumnCount(d), selected_columns[k])
        fault == IF n = 0 THEN "ValueError" ELSE MinFault(d, selected_columns, 1)
    IN  IF fault # "none"
        THEN [exc |-> fault, fig |-> NewFigure]
        ELSE [exc |-> "none",
              fig |-> CompletedFigure(
                          [k \in 1..n |-> ColumnName(col(k))],
                          [k \in 1..n |-> ColumnExtrema(Column(d, 0), Column(d, col(k)))],
                          YLim(d, selected_columns))]

----------------------------------------------------------------------------
(* on_submit *)

Digits == <<"0", "1", "2", "3", "4", "5", "6", "7", "8", "9">>

DigitChars == Range(Digits)

\* The value of each digit character
DigitVals == [c \in DigitChars |-> (CHOOSE k \in 1..Len(Digits) : Digits[k] = c) - 1]

\* The digits left once an optional sign is taken off
Unsigned(tok) == IF tok # <<>> /\ tok[1] \in {"-", "+"} THEN Tail(tok) ELSE tok

\* int(tok) returns: a sign at most, then one digit at least
IntOk(tok) ==
    /\ Unsigned(tok) # <<>>
    /\ \A k \in 1..Len(Unsigned(tok)) : Unsigned(tok)[k] \in DigitChars

RECURSIVE DecVal(_)
DecVal(ds) == IF ds = <<>> THEN 0 ELSE 10 * DecVal(ButLast(ds)) + DigitVals[Last(ds)]

\* int(tok), for a token int() accepts
IntVal(tok) == IF tok[1] = "-" THEN -DecVal(Unsigned(tok)) ELSE DecVal(Unsigned(tok))

\* list.remove(v): the first occurrence goes
RECURSIVE ListRemove(_, _)
ListRemove(s, v) ==
    IF s = <<>> THEN <<>>
    ELSE IF Head(s) = v THEN Tail(s)
    ELSE <<Head(s)>> \o ListRemove(Tail(s), v)

\* What one submit of the tokens toks (the entry text split at ',') does, for
\* a text other than "exit": how the handler ended, the message box shown, the
\* selection handed to plot_selected_columns and the figure that call created.
\* Only ValueError is caught (line 288): any other exception of the plot call
\* ends the handler with no message box, and the outcome names it.
on_submit(d, toks) ==
    LET parsed == [k \in 1..Len(toks) |-> IntVal(toks[k])]
        selected_columns == IF 0 \in Range(parsed) THEN ListRemove(parsed, 0) ELSE parsed
        plot == plot_selected_columns(d, selected_columns)
        Error(msg) == [outcome |-> "error", shown |-> <<msg>>, passed |-> <<>>, fig |-> <<>>]
    IN  IF \E k \in 1..Len(toks) : ~IntOk(toks[k])
        THEN Error("invalid literal for int() with base 10")
        ELSE IF ~(1 <= Len(selected_columns) /\ Len(selected_columns) <= MaxColumns)
        THEN Error("You must select between 1 and 3 columns.")
        ELSE IF ColumnCount(d) \in Range(selected_columns)
        THEN Error("You must select a column between 1 and len(data.columns)-1.")
        ELSE IF plot.exc = "none"
        THEN [outcome |-> "plotted", shown |-> <<>>,
              passed |-> <<selected_columns>>, fig |-> <<plot.fig>>]
        ELSE IF plot.exc = "ValueError"
        THEN [outcome |-> "error", shown |-> <<"min() arg is an empty sequence">>,
              passed |-> <<selected_columns>>, fig |-> <<plot.fig>>]
        ELSE [outcome |-> plot.exc, shown |-> <<>>,
              passed |-> <<selected_columns>>, fig |-> <<plot.fig>>]

\* The tokens typed: the column numbers 0 .. len(data.columns) + 1 and a word
\* that is no number.
Tokens == {<<Digits[k + 1]>> : k \in 0..(NumDataCols + 2)} \cup {<<"x">>}

Inputs == SeqsUpTo(Tokens, MaxInputLen)

----------------------------------------------------------------------------
(* The application: main() has loaded the data and runs the UI loop *)

Init ==
    /\ data = SampleData
    /\ running = TRUE
    /\ entry = <<>>
    /\ outcome = "none"
    /\ shown = <<>>
    /\ passed = <<>>
    /\ figures = <<>>
    /\ submits = 0
    /\ args = <<>>
    /\ ret = <<>>

\* Return key or Submit button, with a text other than "exit"
Submit(toks) ==
    /\ running
    /\ submits < MaxSubmits
    /\ \E r \in {on_submit(data, toks)} :
           /\ entry' = toks
           /\ outcome' = r.outcome
           /\ shown' = r.shown
           /\ passed' = r.passed
           /\ figures' = figures \o r.fig
    /\ submits' = submits + 1
    /\ UNCHANGED <<data, running, args, ret>>

\* Return key or Submit button, with the text "exit": root.quit()
Exit ==
    /\ running
    /\ submits < MaxSubmits
    /\ running' = FALSE
    /\ entry' = <<<<"exit">>>>
    /\ outcome' = "exit"
    /\ shown' = <<>>
    /\ passed' = <<>>
    /\ submits' = submits + 1
    /\ UNCHANGED <<data, figures, args, ret>>

Next ==
    \/ \E toks \in Inputs : Submit(toks)
    \/ Exit

Spec == Init /\ [][Next]_vars

----------------------------------------------------------------------------
(* Direct calls of the pure functions, on every input within the bounds *)

\* The state around a direct call: no UI loop, nothing submitted
NoEvents ==
    /\ running = FALSE
    /\ entry = <<>>
    /\ shown = <<>>
    /\ submits = 0

\* get_fig_title_string('Satellite Telemetry:', col_names, col_names_size=len(col_names))
TitleNames == {<<"A">>, <<"B">>, <<"C">>, ColumnName(1)}

InitTitle ==
    /\ NoEvents
    /\ data = SampleData
    /\ outcome = "none"
    /\ passed = <<>>
    /\ figures = <<>>
    /\ args \in SeqsUpTo(TitleNames, MaxColumns)
    /\ ret = <<>>

CallTitle ==
    /\ outcome = "none"
    /\ ret' = get_fig_title_string(TitlePrefix, args, Len(args))
    /\ outcome' = "returned"
    /\ UNCHANGED <<data, running, entry, shown, passed, figures, submits, args>>

SpecTitle == InitTitle /\ [][CallTitle]_vars

\* annotate_axs_max_min_levels(ax, col_names, annotation_max_mins, colors,
\*                             last_position_above, level=len(col_names))
LevelNames == {<<"A">>, <<"B">>, <<"C">>}

LevelPoints ==
    {Annotation_Max_Min(<<1, MaxVal>>, <<NumRows, 0>>),
     Annotation_Max_Min(<<NumRows, MaxVal>>, <<NumRows, MaxVal>>)}

InitLevels ==
    /\ NoEvents
    /\ data = SampleData
    /\ outcome = "none"
    /\ passed = <<>>
    /\ figures = <<>>
    /\ \E level \in 1..MaxColumns :
          args \in [col_names : [1..level -> LevelNames],
                    annotation_max_mins : [1..level -> LevelPoints],
                    colors : {Colors},
                    last_position_above : BOOLEAN,
                    level : {level}]
    /\ ret = <<>>

CallLevels ==
    /\ outcome = "none"
    /\ ret' = annotate_axs_max_min_levels(args.col_names, args.annotation_max_mins,
                                          args.colors, args.last_position_above, args.level)
    /\ outcome' = "returned"
    /\ UNCHANGED <<data, running, entry, shown, passed, figures, submits, args>>

SpecLevels == InitLevels /\ [][CallLevels]_vars

\* plot_selected_columns(data, selected_columns), on every table and every
\* selection of 1 to 3 telemetry columns
ValidSelections(d) == SeqsUpTo(1..(ColumnCount(d) - 1), MaxColumns)

InitRange ==
    /\ NoEvents
    /\ data \in DataSets
    /\ outcome = "none"
    /\ passed = <<>>
    /\ figures = <<>>
    /\ args = <<>>
    /\ ret = <<>>

CallPlot(selected_columns) ==
    /\ outcome = "none"
    /\ \E r \in {plot_selected_columns(data, selected_columns)} :
           /\ outcome' = IF r.exc = "none" THEN "plotted" ELSE r.exc
           /\ figures' = <<r.fig>>
    /\ passed' = <<selected_columns>>
    /\ UNCHANGED <<data, running, entry, shown, submits, args, ret>>

NextRange == \E selected_columns \in ValidSelections(data) : CallPlot(selected_columns)

SpecRange == InitRange /\ [][NextRange]_vars

----------------------------------------------------------------------------
(* Claims *)

Abs(x) == IF x < 0 THEN -x ELSE x

\* names joined left to right with ", "
RECURSIVE JoinForward(_)
JoinForward(names) ==
    IF Len(names) = 1 THEN names[1]
    ELSE JoinForward(ButLast(names)) \o <<",", " ">> \o Last(names)

\* C1: for 1 to 3 names, get_fig_title_string(prefix, names, len(names)) is the
\* prefix, a space, and the names in their selection order separated by ", ".
C1_TitleForwardOrder ==
    outcome = "returned" => ret = TitlePrefix \o <<" ">> \o JoinForward(args)

\* C2: in a call with level N in 1..3 and either value of last_position_above,
\* the values returned by the 2N placements alternate: no two consecutive
\* placements return the same value, across series too.
C2_PlacementsAlternate ==
    outcome = "returned" =>
        \A i \in 1..(Len(ret) - 1) : ret[i].returned # ret[i + 1].returned

\* The series (1..N) a placement of a level-N call belongs to, as the claims
\* count them: placements 1, 2 are of series N, placements 3, 4 of series N-1, ...
SeriesOf(i, N) == N - ((i - 1) \div 2)

\* C9: a call with level N makes exactly 2N placements: for L = N down to 1 the
\* 'Peak' label of series L and then its 'Lowest' label, each with the name,
\* extremum point and colour of series L.
C9_PlacementOrder ==
    outcome = "returned" =>
        /\ Len(ret) = 2 * args.level
        /\ \A k \in 1..args.level :
              LET L == args.level - k + 1 IN
              /\ ret[2 * k - 1].label = <<"Peak", " ">> \o args.col_names[L]
              /\ ret[2 * k - 1].xy = args.annotation_max_mins[L].peak_xy
              /\ ret[2 * k - 1].facecolor = args.colors[L]
              /\ ret[2 * k].label = <<"Lowest", " ">> \o args.col_names[L]
              /\ ret[2 * k].xy = args.annotation_max_mins[L].min_xy
              /\ ret[2 * k].facecolor = args.colors[L]

\* C9 witness: a call for three series has returned
C9_Witness == outcome = "returned" /\ args.level = 3 /\ Len(ret) = 6

\* C10 as stated: in a call for 2 or 3 series, a series annotated later in the
\* call (deeper in the recursion) has a strictly larger offset magnitude than
\* every series annotated before it.
C10_OffsetGrowsWithDepth ==
    (outcome = "returned" /\ args.level >= 2) =>
        \A i, j \in 1..Len(ret) :
            SeriesOf(i, args.level) > SeriesOf(j, args.level)
                => Abs(ret[j].xytext[2]) > Abs(ret[i].xytext[2])

\* C10 amended: the offset magnitude is 7 * level and shrinks with the depth of
\* the recursion: a series annotated later in the call has a strictly smaller
\* offset magnitude than every series annotated before it.
C10_OffsetShrinksWithDepth ==
    (outcome = "returned" /\ args.level >= 2) =>
        \A i, j \in 1..Len(ret) :
            /\ Abs(ret[i].xytext[2]) = LevelSpacing * SeriesOf(i, args.level)
            /\ SeriesOf(i, args.level) > SeriesOf(j, args.level)
                  => Abs(ret[j].xytext[2]) < Abs(ret[i].xytext[2])

\* C10 witness: a call for three series has returned, with offsets 21 and 7
C10_Witness ==
    /\ outcome = "returned"
    /\ args.level = 3
    /\ Abs(ret[1].xytext[2]) = 21
    /\ Abs(ret[6].xytext[2]) = 7

\* The last submitted text is a list of integers, and that list
EntryParses == entry # <<>> /\ \A k \in 1..Len(entry) : IntOk(entry[k])
EntryInts == [k \in 1..Len(entry) |-> IntVal(entry[k])]

NotTimeColumn(i) == i # 0

\* C3: a submitted list of integers with an index >= the column count gets the
\* error message box, and plot_selected_columns computes nothing for it.
C3_OutOfRangeIndexReported ==
    (EntryParses /\ \E k \in 1..Len(entry) : EntryInts[k] >= ColumnCount(data)) =>
        (outcome = "error" /\ shown # <<>> /\ passed = <<>>)

\* C4: the selection handed to plot_selected_columns never contains index 0.
C4_TimeColumnNeverPassed ==
    passed # <<>> => 0 \notin Range(passed[1])

\* C5: the selection handed to plot_selected_columns holds pairwise distinct
\* column indices.
C5_SelectionDistinct ==
    passed # <<>> =>
        \A i, j \in 1..Len(passed[1]) : i # j => passed[1][i] # passed[1][j]

\* C6: for a submitted list of integers, with index 0 dropped from it: a size
\* outside 1..3 gets the error and no plot_selected_columns call; a size in
\* 1..3 with every index a telemetry column is plotted.
C6_CountValidated ==
    EntryParses =>
        LET selection == SelectSeq(EntryInts, NotTimeColumn) IN
        /\ Len(selection) \notin 1..MaxColumns => (outcome = "error" /\ passed = <<>>)
        /\ (/\ Len(selection) \in 1..MaxColumns
            /\ \A k \in 1..Len(selection) :
                  1 <= selection[k] /\ selection[k] < ColumnCount(data))
              => outcome = "plotted"

\* C7: a request that does not end in a completed plot leaves the figures as
\* they were: no figure or axis is created for it.
C7_FailedRequestLeavesFigures ==
    [][outcome' # "plotted" => figures' = figures]_vars

\* C8: the y-range set on every axis is (overall_min - margin, overall_max +
\* margin) with margin 5% of the span of the selected columns' values: it
\* encloses every selected value, is 1.1 times the span wide, collapses to one
\* point when all values are equal, and depends on selected columns alone.
\* (Limits are kept multiplied by MarginDen.)
C8_SharedRange ==
    outcome = "plotted" =>
        LET sel == passed[1]
            values == {Column(data, sel[k])[r] : k \in 1..Len(sel), r \in 1..NumRows}
            lo == CHOOSE m \in values : \A v \in values : m <= v
            hi == CHOOSE m \in values : \A v \in values : m >= v
            axes == Last(figures).axes
        IN  /\ Len(axes) = Len(sel)
            /\ \A a \in 1..Len(axes) :
                  /\ axes[a].ylim = <<MarginDen * lo - (hi - lo), MarginDen * hi + (hi - lo)>>
                  /\ \A v \in values :
                        axes[a].ylim[1] <= MarginDen * v /\ MarginDen * v <= axes[a].ylim[2]
                  /\ 10 * (axes[a].ylim[2] - axes[a].ylim[1]) = 11 * MarginDen * (hi - lo)
                  /\ (hi = lo) => axes[a].ylim[1] = axes[a].ylim[2]

\* C8 witness: two different columns are plotted on two axes whose shared
\* range has a margin, the selected values not being all equal
C8_Witness ==
    /\ outcome = "plotted"
    /\ Len(passed[1]) = 2
    /\ passed[1][1] # passed[1][2]
    /\ Len(Last(figures).axes) = 2
    /\ Last(figures).axes[2].ylim[1] < Last(figures).axes[2].ylim[2]

====
